---- MODULE Spec2Model ----
(***************************************************************************)
(* The PDF / image host server: two in-memory Maps of metadata objects     *)
(* (pdfFiles, imageFiles), the upload directories on disk, the multer      *)
(* upload middleware, the create / fetch / edit / delete route handlers    *)
(* and the fire-and-forget snapshot writes of data.js.                     *)
(*                                                                         *)
(* A request occupies a slot (a connection).  A handler runs without       *)
(* interruption up to its next await (fs.unlink, fs.readFile); the file    *)
(* system operation and the handler's continuation are steps of their own. *)
(* multer's disk write precedes the handler of a route that takes a file.  *)
(***************************************************************************)
EXTENDS Integers, FiniteSets, Sequences, Bags

\* ---------------------------------------------------------------- bounds
MaxIds == 2        \* uuids handed out in one run
MaxBlob == 2       \* distinct upload contents; content b is b bytes long
MaxClock == 2      \* readings of the wall clock
MaxSlots == 2      \* requests in flight at once

\* ---------------------------------------------------------------- values
UPLOADS_PDFS_DIR == "uploads/pdfs/"
UPLOADS_IMAGES_DIR == "uploads/images/"

Cats == {"pdf", "image"}
Dirs == {UPLOADS_PDFS_DIR, UPLOADS_IMAGES_DIR}
Names == {"a", "b"}
Mimes == {"application/pdf", "image/jpeg"}
Blobs == 1..MaxBlob
Ids == 1..MaxIds
\* The ids a request may name: one the server has handed out, or 0, which it
\* never hands out.
AskIds == 0..MaxIds
Slots == 1..MaxSlots
\* A file name no record has until an edit uploads a file of that name.
Spare == "c"
Paths == Dirs \X (Names \cup {Spare})
NoPath == <<"", "">>
\* A date a client puts in the request body: before the run, or far ahead.
ClientDates == {MaxClock + 1}

\* req.file as multer leaves it; present = FALSE is a request without a file.
NoFile == [present |-> FALSE, originalname |-> "", mimetype |-> "", bytes |-> 0]
Files == {[present |-> TRUE, originalname |-> n, mimetype |-> m, bytes |-> b] :
            n \in Names, m \in Mimes, b \in Blobs}

\* req.body of an edit; "" and 0 are the falsy (absent) values.
NoBody == [newFilename |-> "", newUploadDate |-> 0, newEditDate |-> 0]
Bodies == [newFilename : Names \cup {""},
           newUploadDate : ClientDates \cup {0},
           newEditDate : ClientDates \cup {0}]

NoPre == [keys |-> {}, heap |-> [i \in {} |-> 0], disk |-> [p \in Paths |-> 0]]

\* A connection: the request in flight there with the handler's place (pc) and
\* locals (filepath, res), or the response to its last request (pc = "done").
\* pre is a history field: the Map, its objects and the disk as the request
\* found them.
Idle == [op |-> "none", cat |-> "", id |-> 0, file |-> NoFile, body |-> NoBody,
         pc |-> "idle", filepath |-> NoPath, res |-> "", status |-> 0, data |-> 0,
         pre |-> NoPre]

VARIABLES
  pdfFiles,    \* keys of the pdf Map (each key maps to the object heap[key])
  imageFiles,  \* keys of the image Map
  heap,        \* the metadata objects, by id
  disk,        \* path -> content of the file there, 0 when there is none
  reqs,        \* slot -> the request in flight there, or its response
  now,         \* the wall clock, as new Date() reads it
  nextId,      \* the next uuid
  dataFile,    \* category -> content of its snapshot file
  saving,      \* category -> bag of snapshot writes in flight
  ready,       \* the connections whose awaited unlink has settled, oldest first
  written,     \* id -> the content last uploaded for that record (history)
  loading      \* category -> the startup load of its snapshot is in progress

vars == <<pdfFiles, imageFiles, heap, disk, reqs, now, nextId, dataFile, saving,
          ready, written, loading>>

\* ------------------------------------------------------------- helpers
MapOf(c) == IF c = "pdf" THEN pdfFiles ELSE imageFiles

\* multer.diskStorage: the directory follows the file's mimetype, the name is
\* the client's.
Destination(file) ==
  IF file.mimetype = "application/pdf" THEN UPLOADS_PDFS_DIR ELSE UPLOADS_IMAGES_DIR

StoragePath(file) == <<Destination(file), file.originalname>>

Size(bytes) == bytes

\* Array.from(map.values()).find(file => file.filename === originalname)
ExistingFile(c, originalname) ==
  \E j \in MapOf(c) : heap[j].filename = originalname

\* ... && file.id !== id
ExistingOtherFile(c, originalname, id) ==
  \E j \in MapOf(c) : heap[j].filename = originalname /\ heap[j].id # id

RECURSIVE SeqOf(_)
SeqOf(S) ==
  IF S = {} THEN <<>>
  ELSE LET m == CHOOSE x \in S : \A y \in S : x <= y
       IN <<m>> \o SeqOf(S \ {m})

\* Array.from(map.entries()) over the Map with keys `keys`
Entries(keys, h) ==
  LET ids == SeqOf(keys) IN [k \in 1..Len(ids) |-> <<ids[k], h[ids[k]]>>]

\* The content of a snapshot file.  kind "json" is the text of a JSON array of
\* [id, metadata] pairs, `entries`; "absent" is no file, "blank" white space
\* only, "malformed" text JSON.parse rejects, "notpairs" JSON that is no array
\* of pairs (an object, a number).
Stringify(entries) == [kind |-> "json", entries |-> entries]
Absent == [kind |-> "absent", entries |-> <<>>]
Blank == [kind |-> "blank", entries |-> <<>>]
Malformed == [kind |-> "malformed", entries |-> <<>>]
NotPairs == [kind |-> "notpairs", entries |-> <<>>]

\* new Map(entries): the keys, and for each key the value of its last pair.
FromEntries(entries) ==
  LET keys == {entries[k][1] : k \in 1..Len(entries)}
      last(i) == CHOOSE k \in 1..Len(entries) :
                   /\ entries[k][1] = i
                   /\ \A l \in 1..Len(entries) : entries[l][1] = i => l <= k
  IN [keys |-> keys, heap |-> [i \in keys |-> entries[last(i)][2]]]

\* LoadFilesDataFromFile with the parsed pairs thrown away: any content that
\* is not blank gives new Map().
LoadFilesDataFromFileNoParse(text, keys, h) ==
  IF text.kind = "blank" THEN [keys |-> keys, heap |-> [i \in keys |-> h[i]]]
  ELSE [keys |-> {}, heap |-> [i \in {} |-> 0]]

\* The Map loadPdfFilesDataFromFile / loadImageFilesDataFromFile leaves when
\* the snapshot file holds `text` and the Map has the keys `keys` and the
\* objects h: blank text returns early and keeps the Map, readFile's ENOENT,
\* JSON.parse's SyntaxError and new Map's TypeError are caught and give
\* new Map(), parsed pairs give new Map(entries).
LoadFilesDataFromFile(text, keys, h) ==
  IF text.kind = "blank" THEN [keys |-> keys, heap |-> [i \in keys |-> h[i]]]
  ELSE IF text.kind = "json" THEN FromEntries(text.entries)
  ELSE [keys |-> {}, heap |-> [i \in {} |-> 0]]

\* The objects still referenced: by a Map, or by an edit handler suspended at
\* its await (its `metadata`).
Live(pf, imf, rq) ==
  pf \cup imf \cup
  {rq[s].id : s \in {t \in Slots : rq[t].op = "edit" /\ rq[t].pc \in {"unlink", "resume"}}}

Restrict(f, S) == [i \in S |-> f[i]]

\* The connection after the answer: res.send(...) or next(createError(status)).
Done(op, c, id, status, data) ==
  [Idle EXCEPT !.op = op, !.cat = c, !.id = id, !.pc = "done",
               !.status = status, !.data = data]

\* No snapshot write is in flight.
Settled == \A c \in Cats : saving[c] = EmptyBag

\* A request may arrive on connection s: its last request is answered, and the
\* clients send a request once the earlier snapshot writes have settled.
Free(s) == reqs[s].pc \in {"idle", "done"} /\ Settled

Pre(c) == [keys |-> MapOf(c), heap |-> Restrict(heap, MapOf(c)), disk |-> disk]

\* The event loop runs the callbacks of settled file system operations in the
\* order they settled.  A handler resumes after its await when its unlink is
\* the oldest settled one; a handler that multer calls from the callback of
\* its last write runs when no operation settled earlier still waits.
InTurn(s) == ready # <<>> /\ Head(ready) = s
NoneReady == ready = <<>>

\* A client names an id the server has returned, or the one it never returns.
Known(id) == id < nextId

\* The end of a step that changes no Map and no object.
SameStore ==
  /\ UNCHANGED <<pdfFiles, imageFiles, nextId, dataFile, saving, loading>>
  /\ heap' = Restrict(heap, Live(pdfFiles, imageFiles, reqs'))
  /\ written' = Restrict(written, Live(pdfFiles, imageFiles, reqs'))

\* The request in slot s is answered.
Reply(s, status, data) ==
  reqs' = [reqs EXCEPT ![s] = Done(reqs[s].op, reqs[s].cat, reqs[s].id, status, data)]

\* updatePdfFilesDataToFile / updateImageFilesDataToFile: the snapshot text is
\* built at once, the write is left in flight.
UpdateFilesDataToFile(c, keys, h) ==
  saving' = [saving EXCEPT ![c] = @ (+) SetToBag({Stringify(Entries(keys, h))})]

\* The Maps after `keys` becomes the key set of category c's Map.
SetMap(c, keys) ==
  /\ pdfFiles' = IF c = "pdf" THEN keys ELSE pdfFiles
  /\ imageFiles' = IF c = "image" THEN keys ELSE imageFiles

\* ---------------------------------------------------------------- Init
\* The server on its first start, once both startup loads have found no
\* snapshot file.
Init ==
  /\ pdfFiles = {}
  /\ imageFiles = {}
  /\ heap = [i \in {} |-> 0]
  /\ disk = [p \in Paths |-> 0]
  /\ reqs = [s \in Slots |-> Idle]
  /\ now = 1
  /\ nextId = 1
  /\ dataFile = [c \in Cats |-> Absent]
  /\ saving = [c \in Cats |-> EmptyBag]
  /\ ready = <<>>
  /\ written = [i \in {} |-> 0]
  /\ loading = [c \in Cats |-> FALSE]

\* ------------------------------------------------------- the wall clock
Tick ==
  /\ now < MaxClock
  /\ now' = now + 1
  /\ UNCHANGED <<pdfFiles, imageFiles, heap, disk, reqs, nextId, dataFile, saving,
                 ready, written, loading>>

\* --------------------------------------------------------------- multer
\* CreateUpload with the handler called whether or not the write succeeded.
CreateUploadUnchecked(s, c, file, ok) ==
  /\ Free(s)
  /\ file.present
  /\ nextId <= MaxIds \/ ExistingFile(c, file.originalname)
  /\ disk' = IF ok THEN [disk EXCEPT ![StoragePath(file)] = file.bytes] ELSE disk
  /\ reqs' = [reqs EXCEPT ![s] =
                [Idle EXCEPT !.op = "create", !.cat = c, !.file = file,
                             !.pc = "handler", !.pre = Pre(c)]]
  /\ UNCHANGED <<now, ready>>
  /\ SameStore

\* upload.single("file") of POST /{c}/create: the file is written under its
\* client-given name before the handler runs, replacing a file already there.
\* A failed write (ok = FALSE) goes to the error middleware; the handler
\* never runs.
CreateUpload(s, c, file, ok) ==
  /\ Free(s)
  /\ file.present
  /\ nextId <= MaxIds \/ ExistingFile(c, file.originalname)
  /\ IF ok
     THEN /\ disk' = [disk EXCEPT ![StoragePath(file)] = file.bytes]
          /\ reqs' = [reqs EXCEPT ![s] =
                        [Idle EXCEPT !.op = "create", !.cat = c, !.file = file,
                                     !.pc = "handler", !.pre = Pre(c)]]
     ELSE /\ UNCHANGED disk
          /\ reqs' = [reqs EXCEPT ![s] = Done("create", c, 0, 500, 0)]
  /\ UNCHANGED <<now, ready>>
  /\ SameStore

\* upload.single("file") of PATCH /{c}/edit/:id with a file part.
EditUpload(s, c, id, file, body, ok) ==
  /\ Free(s)
  /\ Known(id)
  /\ file.present
  /\ IF ok
     THEN /\ disk' = [disk EXCEPT ![StoragePath(file)] = file.bytes]
          /\ reqs' = [reqs EXCEPT ![s] =
                        [Idle EXCEPT !.op = "edit", !.cat = c, !.id = id, !.file = file,
                                     !.body = body, !.pc = "handler", !.pre = Pre(c)]]
     ELSE /\ UNCHANGED disk
          /\ reqs' = [reqs EXCEPT ![s] = Done("edit", c, id, 500, 0)]
  /\ UNCHANGED <<now, ready>>
  /\ SameStore

\* --------------------------------------------------------------- create
\* POST /{c}/create without a file part: 400.
CreateNoFile(s, c) ==
  /\ Free(s)
  /\ reqs' = [reqs EXCEPT ![s] = Done("create", c, 0, 400, 0)]
  /\ UNCHANGED <<disk, now, ready>>
  /\ SameStore

\* CreateHandler without the scan for a record of the same filename.
CreateHandlerUnchecked(s) ==
  LET r == reqs[s]
      c == r.cat
      id == nextId
      metadata == [id |-> id,
                   filename |-> r.file.originalname,
                   filepath |-> StoragePath(r.file),
                   size |-> Size(r.file.bytes),
                   uploadDate |-> now,
                   editDate |-> now]
      h == [i \in DOMAIN heap \cup {id} |-> IF i = id THEN metadata ELSE heap[i]]
      w == [i \in DOMAIN heap \cup {id} |-> IF i = id THEN r.file.bytes ELSE written[i]]
  IN /\ r.op = "create" /\ r.pc = "handler" /\ NoneReady
     /\ nextId <= MaxIds
     /\ SetMap(c, MapOf(c) \cup {id})
     /\ reqs' = [reqs EXCEPT ![s] = Done("create", c, id, 200, 0)]
     /\ nextId' = nextId + 1
     /\ heap' = Restrict(h, Live(pdfFiles', imageFiles', reqs'))
     /\ written' = Restrict(w, Live(pdfFiles', imageFiles', reqs'))
     /\ UpdateFilesDataToFile(c, MapOf(c) \cup {id}, h)
     /\ UNCHANGED <<dataFile, loading, disk, now, ready>>

\* The handler of POST /{c}/create, which has no await.
CreateHandler(s) ==
  LET r == reqs[s]
      c == r.cat
      id == nextId
      uploadDate == now
      metadata == [id |-> id,
                   filename |-> r.file.originalname,
                   filepath |-> StoragePath(r.file),
                   size |-> Size(r.file.bytes),
                   uploadDate |-> uploadDate,
                   editDate |-> uploadDate]
  IN /\ r.op = "create" /\ r.pc = "handler" /\ NoneReady
     /\ IF ExistingFile(c, r.file.originalname)
        THEN /\ Reply(s, 409, 0)
             /\ SameStore
        ELSE /\ nextId <= MaxIds
             /\ SetMap(c, MapOf(c) \cup {id})
             /\ reqs' = [reqs EXCEPT ![s] = Done("create", c, id, 200, 0)]
             /\ nextId' = nextId + 1
             /\ LET h == [i \in DOMAIN heap \cup {id} |->
                            IF i = id THEN metadata ELSE heap[i]]
                    w == [i \in DOMAIN heap \cup {id} |->
                            IF i = id THEN r.file.bytes ELSE written[i]]
                    live == Live(pdfFiles', imageFiles', reqs')
                IN /\ heap' = Restrict(h, live)
                   /\ written' = Restrict(w, live)
                   /\ UpdateFilesDataToFile(c, MapOf(c) \cup {id}, h)
             /\ UNCHANGED <<dataFile, loading>>
     /\ UNCHANGED <<disk, now, ready>>

\* ---------------------------------------------------------------- fetch
\* GET /{c}/fetch/:id up to its await fs.readFile(filePath).
FetchHandler(s, c, id) ==
  /\ Free(s)
  /\ Known(id)
  /\ IF id \notin MapOf(c)
     THEN reqs' = [reqs EXCEPT ![s] = Done("fetch", c, id, 404, 0)]
     ELSE reqs' = [reqs EXCEPT ![s] =
                     [Idle EXCEPT !.op = "fetch", !.cat = c, !.id = id,
                                  !.pc = "read", !.filepath = heap[id].filepath]]
  /\ UNCHANGED <<disk, now, ready>>
  /\ SameStore

\* fs.readFile(path): the file's content, or 0 when the read fails (no such
\* file, or an I/O error: ok = FALSE).
ReadFile(path, ok) == IF ok THEN disk[path] ELSE 0

\* fs.readFile settles and the handler answers: the bytes, or 500.
FetchRead(s, ok) ==
  LET r == reqs[s]
      data == ReadFile(r.filepath, ok)
  IN /\ r.op = "fetch" /\ r.pc = "read"
     /\ IF data # 0 THEN Reply(s, 200, data) ELSE Reply(s, 500, 0)
     /\ UNCHANGED <<disk, now, ready>>
     /\ SameStore

\* --------------------------------------------------------------- unlink
\* fs.unlink(path) settles: "ok" and the file is gone, "ENOENT" when there is
\* no such file, "EIO" for any other failure (ok = FALSE), the file kept.
Unlink(path, ok) ==
  IF disk[path] = 0 THEN "ENOENT" ELSE IF ok THEN "ok" ELSE "EIO"

\* fs.unlink(filepath) of a suspended edit or delete handler is carried out.
UnlinkExec(s, ok) ==
  LET r == reqs[s]
      res == Unlink(r.filepath, ok)
  IN /\ r.pc = "unlink"
     /\ disk' = IF res = "ok" THEN [disk EXCEPT ![r.filepath] = 0] ELSE disk
     /\ reqs' = [reqs EXCEPT ![s].pc = "resume", ![s].res = res]
     /\ ready' = Append(ready, s)
     /\ UNCHANGED now
     /\ SameStore

\* --------------------------------------------------------------- delete
\* DELETE /{c}/delete/:id up to its await fs.unlink(filePath).
DeleteHandler(s, c, id) ==
  /\ Free(s)
  /\ Known(id)
  /\ IF id \notin MapOf(c)
     THEN reqs' = [reqs EXCEPT ![s] = Done("delete", c, id, 404, 0)]
     ELSE reqs' = [reqs EXCEPT ![s] =
                     [Idle EXCEPT !.op = "delete", !.cat = c, !.id = id,
                                  !.pc = "unlink", !.filepath = heap[id].filepath]]
  /\ UNCHANGED <<disk, now, ready>>
  /\ SameStore

\* DeleteResume with map.delete(id) and the snapshot write outside the try:
\* they run whether or not unlink succeeded.
DeleteResumeUnguarded(s) ==
  LET r == reqs[s]
      c == r.cat
  IN /\ r.op = "delete" /\ r.pc = "resume" /\ InTurn(s)
     /\ SetMap(c, MapOf(c) \ {r.id})
     /\ Reply(s, IF r.res = "ok" THEN 200 ELSE 500, 0)
     /\ UpdateFilesDataToFile(c, MapOf(c) \ {r.id}, heap)
     /\ heap' = Restrict(heap, Live(pdfFiles', imageFiles', reqs'))
     /\ written' = Restrict(written, Live(pdfFiles', imageFiles', reqs'))
     /\ ready' = Tail(ready)
     /\ UNCHANGED <<nextId, dataFile, disk, now, loading>>

\* The rest of the try block once unlink has settled, or the catch.
DeleteResume(s) ==
  LET r == reqs[s]
      c == r.cat
  IN /\ r.op = "delete" /\ r.pc = "resume" /\ InTurn(s)
     /\ IF r.res = "ok"
        THEN /\ SetMap(c, MapOf(c) \ {r.id})
             /\ Reply(s, 200, 0)
             /\ UpdateFilesDataToFile(c, MapOf(c) \ {r.id}, heap)
             /\ heap' = Restrict(heap, Live(pdfFiles', imageFiles', reqs'))
             /\ written' = Restrict(written, Live(pdfFiles', imageFiles', reqs'))
             /\ UNCHANGED <<nextId, dataFile, loading>>
        ELSE /\ Reply(s, 500, 0)
             /\ SameStore
     /\ ready' = Tail(ready)
     /\ UNCHANGED <<disk, now>>

\* ----------------------------------------------------------------- edit
\* metadata.filename / filepath / size = those of the uploaded file
WithNewFile(m, file) ==
  [m EXCEPT !.filename = file.originalname,
            !.filepath = StoragePath(file),
            !.size = Size(file.bytes)]

\* "Update metadata from request body", then editDate = new Date(): the image
\* route reads no newEditDate.
WithBody(m, c, body, t) ==
  LET m1 == IF body.newFilename # "" THEN [m EXCEPT !.filename = body.newFilename] ELSE m
      m2 == IF body.newUploadDate # 0
            THEN [m1 EXCEPT !.uploadDate = body.newUploadDate] ELSE m1
      m3 == IF c = "pdf" /\ body.newEditDate # 0
            THEN [m2 EXCEPT !.editDate = body.newEditDate] ELSE m2
  IN [m3 EXCEPT !.editDate = t]

\* "Save changes": map.set(id, metadata), the snapshot write, the answer.
\* m is the metadata object after the handler's assignments, bytes the content
\* uploaded with the request (0: none).
SaveChanges(s, c, id, m, bytes) ==
  LET h == [i \in DOMAIN heap |-> IF i = id THEN m ELSE heap[i]]
      w == [i \in DOMAIN heap |-> IF i = id /\ bytes # 0 THEN bytes ELSE written[i]]
  IN /\ SetMap(c, MapOf(c) \cup {id})
     /\ reqs' = [reqs EXCEPT ![s] = Done("edit", c, id, 200, 0)]
     /\ UpdateFilesDataToFile(c, MapOf(c) \cup {id}, h)
     /\ heap' = Restrict(h, Live(pdfFiles', imageFiles', reqs'))
     /\ written' = Restrict(w, Live(pdfFiles', imageFiles', reqs'))
     /\ UNCHANGED <<nextId, dataFile, loading>>

\* PATCH /{c}/edit/:id without a file part: the handler has no await.
EditNoFile(s, c, id, body) ==
  /\ Free(s)
  /\ Known(id)
  /\ IF id \notin MapOf(c)
     THEN /\ reqs' = [reqs EXCEPT ![s] = Done("edit", c, id, 404, 0)]
          /\ SameStore
     ELSE SaveChanges(s, c, id, WithBody(heap[id], c, body, now), 0)
  /\ UNCHANGED <<disk, now, ready>>

\* PATCH /{c}/edit/:id with a file, from the handler's start to its
\* await fs.unlink(filepath): 404, 409, or suspended with the old filepath.
EditHandler(s) ==
  LET r == reqs[s]
      c == r.cat
  IN /\ r.op = "edit" /\ r.pc = "handler" /\ NoneReady
     /\ IF r.id \notin MapOf(c)
        THEN Reply(s, 404, 0)
        ELSE IF ExistingOtherFile(c, r.file.originalname, r.id)
        THEN Reply(s, 409, 0)
        ELSE reqs' = [reqs EXCEPT ![s].pc = "unlink",
                                  ![s].filepath = heap[r.id].filepath]
     /\ UNCHANGED <<disk, now, ready>>
     /\ SameStore

\* EditResume with the filename check of the handler's start made again after
\* the await.
EditResumeRechecked(s) ==
  LET r == reqs[s]
  IN /\ r.op = "edit" /\ r.pc = "resume" /\ InTurn(s)
     /\ IF r.res = "ok" /\ ~ExistingOtherFile(r.cat, r.file.originalname, r.id)
        THEN SaveChanges(s, r.cat, r.id,
                         WithBody(WithNewFile(heap[r.id], r.file), r.cat, r.body, now),
                         r.file.bytes)
        ELSE /\ Reply(s, IF r.res = "ok" THEN 409 ELSE 500, 0)
             /\ SameStore
     /\ ready' = Tail(ready)
     /\ UNCHANGED <<disk, now>>

\* The edit handler after its await: 500 when unlink failed, else the new
\* file's fields, the body's fields, editDate and "Save changes".
EditResume(s) ==
  LET r == reqs[s]
  IN /\ r.op = "edit" /\ r.pc = "resume" /\ InTurn(s)
     /\ IF r.res = "ok"
        THEN SaveChanges(s, r.cat, r.id,
                         WithBody(WithNewFile(heap[r.id], r.file), r.cat, r.body, now),
                         r.file.bytes)
        ELSE /\ Reply(s, 500, 0)
             /\ SameStore
     /\ ready' = Tail(ready)
     /\ UNCHANGED <<disk, now>>

\* ------------------------------------------------------ snapshot writes
\* fs.writeFile of a snapshot settles: the file holds the text handed to it,
\* or the write failed and the error is only logged (ok = FALSE).
SaveDone(c, ok) ==
  /\ \E text \in BagToSet(saving[c]) :
       /\ saving' = [saving EXCEPT ![c] = @ (-) SetToBag({text})]
       /\ dataFile' = IF ok THEN [dataFile EXCEPT ![c] = text] ELSE dataFile
  /\ UNCHANGED <<pdfFiles, imageFiles, heap, disk, reqs, now, nextId, ready, written,
                 loading>>

\* --------------------------------------------------------- startup load
\* The unawaited loadPdfFilesDataFromFile() / loadImageFilesDataFromFile()
\* call of startup settles: the module's Map variable is what the load leaves.
\* The objects of a parsed snapshot are new ones; their files hold what was
\* uploaded for them (size bytes).
LoadDone(c) ==
  LET got == LoadFilesDataFromFile(dataFile[c], MapOf(c), heap)
      fresh == IF dataFile[c].kind = "json" THEN got.keys ELSE {}
      h == [i \in DOMAIN heap \cup fresh |-> IF i \in fresh THEN got.heap[i] ELSE heap[i]]
      w == [i \in DOMAIN heap \cup fresh |-> IF i \in fresh THEN got.heap[i].size ELSE written[i]]
  IN /\ loading[c]
     /\ loading' = [loading EXCEPT ![c] = FALSE]
     /\ SetMap(c, got.keys)
     /\ heap' = Restrict(h, Live(pdfFiles', imageFiles', reqs))
     /\ written' = Restrict(w, Live(pdfFiles', imageFiles', reqs))
     /\ UNCHANGED <<disk, reqs, now, nextId, dataFile, saving, ready>>

\* ----------------------------------------------------------------- Spec
\* The requests the server takes: on the routes of `cats`, with upload files
\* from `files` and edit bodies from `bodies`, on the connections `slots`.
Requests(slots, cats, files, bodies) ==
  \/ \E s \in slots, c \in cats, file \in files, ok \in BOOLEAN :
       CreateUpload(s, c, file, ok)
  \/ \E s \in slots, c \in cats : CreateNoFile(s, c)
  \/ \E s \in slots, c \in cats, id \in AskIds : FetchHandler(s, c, id)
  \/ \E s \in slots, c \in cats, id \in AskIds, file \in files, body \in bodies, ok \in BOOLEAN :
       EditUpload(s, c, id, file, body, ok)
  \/ \E s \in slots, c \in cats, id \in AskIds, body \in bodies :
       EditNoFile(s, c, id, body)
  \/ \E s \in slots, c \in cats, id \in AskIds : DeleteHandler(s, c, id)

\* The steps of the requests in flight and of the snapshot writes.
Steps(slots) ==
  \/ \E s \in slots : CreateHandler(s)
  \/ \E s \in slots, ok \in BOOLEAN : FetchRead(s, ok)
  \/ \E s \in slots : EditHandler(s)
  \/ \E s \in slots : EditResume(s)
  \/ \E s \in slots, ok \in BOOLEAN : UnlinkExec(s, ok)
  \/ \E s \in slots : DeleteResume(s)
  \/ \E c \in Cats : SaveDone(c, TRUE)

PdfUploads == {f \in Files : f.mimetype = "application/pdf"}
Renames == {b \in Bodies : b.newUploadDate = 0 /\ b.newEditDate = 0}

\* Requests on the pdf routes, one at a time (one connection: a request
\* arrives once the last is answered), all within one reading of the clock.
Next ==
  \/ Requests({1}, {"pdf"}, PdfUploads, Renames)
  \/ Steps({1})

Spec == Init /\ [][Next]_vars

\* Requests on the pdf routes on every connection: handlers interleave at
\* their awaits, and file system operations are carried out in any order.
RaceUploads == {f \in PdfUploads : f.originalname = "a" /\ f.bytes = 1}

NextRace ==
  \/ Requests(Slots, {"pdf"}, RaceUploads, {NoBody})
  \/ Steps(Slots)

SpecRace == Init /\ [][NextRace]_vars

\* Requests on both routes with dates in the edit body, one at a time, while
\* the clock advances.
TimeUploads == {f \in PdfUploads : f.originalname = "a" /\ f.bytes = 1}
Redatings == {b \in Bodies : b.newFilename = ""}

NextTime ==
  \/ Tick
  \/ Requests({1}, Cats, TimeUploads, Redatings)
  \/ Steps({1})

SpecTime == Init /\ [][NextTime]_vars

\* The server started over the snapshot files of an earlier run: the two
\* loads are in progress while it listens, and requests on the pdf routes
\* arrive one at a time.  The earlier run left one pdf record, or none.
SavedRecord ==
  [id |-> 1, filename |-> "a", filepath |-> <<UPLOADS_PDFS_DIR, "a">>,
   size |-> Size(1), uploadDate |-> 1, editDate |-> 1]
PdfSnapshots ==
  {Absent, Blank, Malformed, NotPairs, Stringify(<<>>), Stringify(<<<<1, SavedRecord>>>>)}
ImageSnapshots == {Absent, Stringify(<<>>)}
BootUploads == {f \in PdfUploads : f.originalname = "b" /\ f.bytes = 1}

InitBoot ==
  /\ pdfFiles = {}
  /\ imageFiles = {}
  /\ heap = [i \in {} |-> 0]
  /\ dataFile \in [Cats -> PdfSnapshots \cup ImageSnapshots]
  /\ dataFile["pdf"] \in PdfSnapshots
  /\ dataFile["image"] \in ImageSnapshots
  /\ disk = [p \in Paths |->
               IF dataFile["pdf"].entries # <<>> /\ p = SavedRecord.filepath
               THEN 1 ELSE 0]
  /\ reqs = [s \in Slots |-> Idle]
  /\ now = 1
  /\ nextId = IF dataFile["pdf"].entries # <<>> THEN 2 ELSE 1
  /\ saving = [c \in Cats |-> EmptyBag]
  /\ ready = <<>>
  /\ written = [i \in {} |-> 0]
  /\ loading = [c \in Cats |-> TRUE]

NextBoot ==
  \/ \E c \in Cats : LoadDone(c)
  \/ Requests({1}, {"pdf"}, BootUploads, {NoBody})
  \/ Steps({1})

SpecBoot == InitBoot /\ [][NextBoot]_vars

\* Requests on both routes, one at a time, with files of either mimetype.
MixUploads == {f \in Files : f.originalname = "a"}

NextMix ==
  \/ Requests({1}, Cats, MixUploads, {NoBody})
  \/ Steps({1})

SpecMix == Init /\ [][NextMix]_vars

\* Requests on the pdf routes on one connection, creating records named after
\* their uploads, and on every connection edits that upload a file of a name
\* no record has.
SpareFile ==
  [present |-> TRUE, originalname |-> Spare, mimetype |-> "application/pdf", bytes |-> 1]
EditUploads == {f \in PdfUploads : f.bytes = 1}

NextEdits ==
  \/ \E file \in EditUploads : CreateUpload(1, "pdf", file, TRUE)
  \/ CreateNoFile(1, "pdf")
  \/ \E id \in AskIds : FetchHandler(1, "pdf", id)
  \/ \E id \in AskIds : EditNoFile(1, "pdf", id, NoBody)
  \/ \E id \in AskIds : DeleteHandler(1, "pdf", id)
  \/ \E s \in Slots, id \in AskIds : EditUpload(s, "pdf", id, SpareFile, NoBody, TRUE)
  \/ Steps(Slots)

SpecEdits == Init /\ [][NextEdits]_vars

\* ================================================================ claims
\* Every request is answered: no transaction is under way.
AllAnswered == \A s \in Slots : reqs[s].pc \in {"idle", "done"}

\* The records of category c with filename n.
Named(c, n) == {j \in MapOf(c) : heap[j].filename = n}

\* C1: in each category, after any sequence of Create, Edit and Delete
\* transactions run one at a time, no two records of the Index have the same
\* filename.
C1_UniqueFilenames ==
  AllAnswered =>
    \A c \in Cats : \A i \in MapOf(c), j \in MapOf(c) :
      i # j => heap[i].filename # heap[j].filename

\* What GET /{c}/fetch/:id sends for a live record when the read meets no
\* I/O error: the bytes at the record's filepath (0: the 500 answer).
Fetched(id) == ReadFile(heap[id].filepath, TRUE)

\* C2: a Fetch(id) issued right after a successful Create or Edit of id
\* succeeds and returns exactly the bytes last written for that record.
C2_FetchAfterWrite ==
  AllAnswered =>
    \A s \in Slots :
      LET r == reqs[s]
      IN (r.pc = "done" /\ r.op \in {"create", "edit"} /\ r.status = 200)
           => /\ r.id \in MapOf(r.cat)
              /\ Fetched(r.id) = written[r.id]

\* C3: after every completed transaction, every record of an Index has a
\* filepath that names a file existing on disk.
C3_BlobExists ==
  AllAnswered =>
    \A c \in Cats : \A i \in MapOf(c) : disk[heap[i].filepath] # 0

MapOfNext(c) == IF c = "pdf" THEN pdfFiles' ELSE imageFiles'

\* C4: blob removal tolerates an already-absent blob: when the unlink of a
\* Delete or of an Edit with new bytes finds no file, the Delete still
\* succeeds and removes the record, and the Edit still succeeds with the
\* record pointing at the new blob.
C4_AbsentBlobTolerated ==
  [][\A s \in Slots :
       LET r == reqs[s]
       IN (r.pc = "resume" /\ r.res = "ENOENT" /\ reqs'[s].pc = "done")
            => /\ reqs'[s].status = 200
               /\ r.op = "delete" => r.id \notin MapOfNext(r.cat)
               /\ r.op = "edit" =>
                    /\ r.id \in MapOfNext(r.cat)
                    /\ heap'[r.id].filepath = StoragePath(r.file)
                    /\ disk'[StoragePath(r.file)] = r.file.bytes]_vars

\* C5: an Edit with new bytes whose uploaded filename is the filename of
\* another record of the category fails with Conflict and changes nothing:
\* the Index is as the request found it, and so are the on-disk bytes of
\* every record's blob.
C5_ConflictChangesNothing ==
  [][\A s \in Slots :
       LET r == reqs[s]
       IN (/\ r.op = "edit" /\ r.pc = "handler"
           /\ r.id \in r.pre.keys
           /\ \E j \in r.pre.keys \ {r.id} :
                r.pre.heap[j].filename = r.file.originalname
           /\ reqs'[s].pc # "handler")
            => /\ reqs'[s].pc = "done" /\ reqs'[s].status = 409
               /\ MapOfNext(r.cat) = r.pre.keys
               /\ \A j \in r.pre.keys :
                    /\ heap'[j] = r.pre.heap[j]
                    /\ disk'[r.pre.heap[j].filepath] = r.pre.disk[r.pre.heap[j].filepath]]_vars

\* C6: Create is rejected with Conflict exactly when some record of the
\* category has the uploaded filename, and a rejected Create leaves the Index
\* unchanged, holding exactly one record with that filename.
C6_CreateConflict ==
  [][\A s \in Slots :
       LET r == reqs[s]
           n == r.file.originalname
       IN (r.op = "create" /\ r.pc = "handler" /\ reqs'[s].pc = "done")
            => /\ reqs'[s].status = 409 <=> Named(r.cat, n) # {}
               /\ reqs'[s].status = 409 =>
                    /\ pdfFiles' = pdfFiles /\ imageFiles' = imageFiles
                    /\ \A j \in MapOf(r.cat) : heap'[j] = heap[j]
                    /\ Cardinality({j \in MapOfNext(r.cat) : heap'[j].filename = n}) = 1]_vars

\* The step is the end of an Edit on connection s.
EditStep(s) ==
  \/ EditResume(s)
  \/ \E c \in Cats, id \in AskIds, body \in Bodies : EditNoFile(s, c, id, body)

\* C7: editDate >= uploadDate for every record in every state, and every
\* successful Edit leaves the record's editDate strictly greater than before.
C7_TimestampsMonotonic ==
  [][/\ \A c \in Cats : \A i \in MapOfNext(c) : heap'[i].editDate >= heap'[i].uploadDate
     /\ \A s \in Slots :
          (EditStep(s) /\ reqs'[s].status = 200)
            => heap'[reqs'[s].id].editDate > heap[reqs'[s].id].editDate]_vars

\* C8: no transaction changes a live record's id or uploadDate.
C8_IdAndUploadDateFixed ==
  [][\A c \in Cats : \A i \in MapOf(c) \cap MapOfNext(c) :
       /\ heap'[i].id = heap[i].id
       /\ heap'[i].uploadDate = heap[i].uploadDate]_vars

\* C9: when the blob removal of a Delete fails, the Delete fails, the Index
\* and its records stay as they are and no snapshot write is started; and a
\* record leaves an Index only in the continuation of a Delete of its id
\* whose blob removal succeeded.
C9_FailedDeleteKeepsRecord ==
  [][/\ \A s \in Slots :
          LET r == reqs[s]
          IN (r.op = "delete" /\ r.pc = "resume" /\ r.res = "EIO" /\ reqs'[s] # r)
               => /\ reqs'[s].pc = "done" /\ reqs'[s].status = 500
                  /\ pdfFiles' = pdfFiles /\ imageFiles' = imageFiles
                  /\ heap' = heap
                  /\ saving' = saving
     /\ \A c \in Cats : \A i \in MapOf(c) \ MapOfNext(c) :
          \E s \in Slots :
            /\ reqs[s].op = "delete" /\ reqs[s].pc = "resume"
            /\ reqs[s].cat = c /\ reqs[s].id = i /\ reqs[s].res = "ok"
            /\ reqs'[s].pc = "done" /\ reqs'[s].status = 200]_vars

\* A Delete has just failed on an I/O error: the record is still in the Index
\* and its file still on disk.
C9_Witness ==
  \E s \in Slots :
    /\ reqs[s].op = "delete" /\ reqs[s].pc = "done" /\ reqs[s].status = 500
    /\ reqs[s].id \in MapOf(reqs[s].cat)
    /\ disk[heap[reqs[s].id].filepath] # 0

\* The id was handed out and is in no Index: its Delete has succeeded.
Deleted(i) == i < nextId /\ i \notin pdfFiles \cup imageFiles

\* C10: once Delete(id) has succeeded, id is in no Index in any later state,
\* under any interleaving, and a Fetch, Edit or Delete of it that begins later
\* is answered NotFound.
C10_DeletedStaysAbsent ==
  [][/\ \A i \in Ids : Deleted(i) => i \notin pdfFiles' \cup imageFiles'
     /\ \A s \in Slots, c \in Cats, i \in Ids :
          (/\ Deleted(i)
           /\ \/ FetchHandler(s, c, i)
              \/ DeleteHandler(s, c, i)
              \/ \E body \in Bodies : EditNoFile(s, c, i, body)
              \/ (reqs[s].cat = c /\ reqs[s].id = i /\ EditHandler(s)))
            => reqs'[s].pc = "done" /\ reqs'[s].status = 404]_vars

\* The Index of category c as a restart would rebuild it: the load run over
\* the snapshot file on an empty Map.
Reloaded(c) == LoadFilesDataFromFile(dataFile[c], {}, heap)

\* C11: once every snapshot write that was started has completed, in whatever
\* order, loading the snapshot file gives exactly the (id, record) pairs the
\* Index holds in memory.
C11_SnapshotRoundTrip ==
  (AllAnswered /\ Settled) =>
    \A c \in Cats :
      Reloaded(c) = [keys |-> MapOf(c), heap |-> Restrict(heap, MapOf(c))]

Other(c) == IF c = "pdf" THEN "image" ELSE "pdf"

\* C12: no step of a Create, Edit or Delete on the routes of one category
\* changes the other category's Index, its records or the bytes of its
\* records' blobs, whatever the mimetype and name of the uploaded file.
C12_CategoriesIsolated ==
  [][\A s \in Slots :
       LET r == reqs'[s]
           o == Other(r.cat)
       IN (r # reqs[s] /\ r.op \in {"create", "edit", "delete"})
            => /\ MapOfNext(o) = MapOf(o)
               /\ \A j \in MapOf(o) :
                    /\ heap'[j] = heap[j]
                    /\ disk'[heap[j].filepath] = disk[heap[j].filepath]]_vars

C15_RecordLeavesOnlyByDelete ==
  [][\A c \in Cats : \A i \in MapOf(c) :
       i \notin MapOfNext(c)
         => \E s \in Slots :
              /\ DeleteResume(s)
              /\ reqs[s].cat = c /\ reqs[s].id = i
              /\ reqs'[s].status = 200]_vars

\* C14: in an Edit with new bytes the old blob is removed before the new one
\* is written: while the Edit is under way the old blob and the new blob never
\* both exist, and when the removal of the old blob fails the Edit fails with
\* the record and the disk as the request found them (no new blob written).
C14_DeleteBeforeWrite ==
  [][\A s \in Slots :
       LET r == reqs[s]
       IN /\ (/\ r.op = "edit" /\ r.pc \in {"handler", "unlink"}
              /\ r.id \in MapOf(r.cat)
              /\ heap[r.id].filepath # StoragePath(r.file))
             => ~(disk[heap[r.id].filepath] # 0 /\ disk[StoragePath(r.file)] # 0)
          /\ (r.op = "edit" /\ r.pc = "resume" /\ r.res = "EIO" /\ reqs'[s].pc = "done")
             => /\ reqs'[s].status = 500
                /\ heap'[r.id] = r.pre.heap[r.id]
                /\ disk' = r.pre.disk]_vars

\* C16: an Edit with new bytes checks the uploaded filename only before its
\* await: once the old blob is removed the Edit succeeds and takes the name,
\* whatever the other records are named by then, so two Edits on different
\* ids interleaved at the await leave two records with one filename.
C16_InterleavedEditsShareName ==
  [][\A s \in Slots :
       LET r == reqs[s]
       IN (r.op = "edit" /\ r.pc = "resume" /\ r.res = "ok" /\ reqs'[s].pc = "done")
            => /\ reqs'[s].status = 200
               /\ r.id \in MapOfNext(r.cat)
               /\ heap'[r.id].filename =
                    IF r.body.newFilename # "" THEN r.body.newFilename
                    ELSE r.file.originalname]_vars

\* Two Edits with new bytes on different ids have both succeeded and the two
\* records have the uploaded filename.
C16_Witness ==
  \E s \in Slots, t \in Slots :
    /\ s # t
    /\ reqs[s].op = "edit" /\ reqs[s].pc = "done" /\ reqs[s].status = 200
    /\ reqs[t].op = "edit" /\ reqs[t].pc = "done" /\ reqs[t].status = 200
    /\ reqs[s].id # reqs[t].id
    /\ {reqs[s].id, reqs[t].id} \subseteq pdfFiles
    /\ heap[reqs[s].id].filename = Spare
    /\ heap[reqs[t].id].filename = Spare

\* C17: in Create the Index is changed only after the upload is on disk: when
\* the upload's write fails the Create fails, no Map, record or snapshot
\* write changes, and every id that enters an Index does so in the handler of
\* a Create whose upload was written, with the uploaded bytes at its filepath.
C17_CreateWriteThenIndex ==
  [][/\ \A s \in Slots :
          (/\ reqs'[s] # reqs[s]
           /\ reqs[s].pc \in {"idle", "done"}
           /\ reqs'[s].op = "create" /\ reqs'[s].pc = "done" /\ reqs'[s].status = 500)
            => /\ pdfFiles' = pdfFiles /\ imageFiles' = imageFiles
               /\ heap' = heap
               /\ saving' = saving
     /\ \A c \in Cats : \A i \in MapOfNext(c) \ MapOf(c) :
          \E s \in Slots :
            /\ reqs[s].op = "create" /\ reqs[s].pc = "handler" /\ reqs[s].cat = c
            /\ reqs'[s].pc = "done" /\ reqs'[s].status = 200 /\ reqs'[s].id = i
            /\ heap'[i].filepath = StoragePath(reqs[s].file)
            /\ disk'[heap'[i].filepath] = reqs[s].file.bytes]_vars

\* A Create has just failed at the upload's write, after an earlier Create put
\* a record in the Index with its blob on disk.
C17_Witness ==
  \E s \in Slots :
    /\ reqs[s].op = "create" /\ reqs[s].pc = "done" /\ reqs[s].status = 500
    /\ Settled
    /\ \E i \in MapOf(reqs[s].cat) : disk[heap[i].filepath] # 0

\* C18: a Create rejected with Conflict leaves the bytes of the blob of the
\* record that has the name as they were before the request.
C18_RejectedCreateKeepsBlob ==
  [][\A s \in Slots :
       LET r == reqs[s]
       IN (/\ r.op = "create" /\ r.pc = "handler"
           /\ reqs'[s].pc = "done" /\ reqs'[s].status = 409)
            => \A j \in Named(r.cat, r.file.originalname) :
                 disk'[heap[j].filepath] = r.pre.disk[heap[j].filepath]]_vars

\* C19: the handler of Create scans the names and inserts in one step: it
\* succeeds exactly when no record of the category has the name, and then the
\* new record is the one record of that name, so that every other Create of
\* the name waiting for its handler at that moment is still waiting and finds
\* the name taken.
C19_ConcurrentCreatesOneWins ==
  [][\A s \in Slots :
       LET r == reqs[s]
           n == r.file.originalname
       IN (r.op = "create" /\ r.pc = "handler" /\ reqs'[s].pc = "done")
            => /\ reqs'[s].status \in {200, 409}
               /\ reqs'[s].status = 200 <=> Named(r.cat, n) = {}
               /\ reqs'[s].status = 200 =>
                    /\ {j \in MapOfNext(r.cat) : heap'[j].filename = n} = {reqs'[s].id}
                    /\ \A t \in Slots \ {s} :
                         (/\ reqs[t].op = "create" /\ reqs[t].pc = "handler"
                          /\ reqs[t].cat = r.cat /\ reqs[t].file.originalname = n)
                           => reqs'[t] = reqs[t]]_vars

\* One Create has succeeded while another Create of the same name, uploaded
\* before the record existed, waits for its handler.
C19_Witness ==
  \E s \in Slots, t \in Slots :
    /\ s # t
    /\ reqs[s].op = "create" /\ reqs[s].pc = "done" /\ reqs[s].status = 200
    /\ reqs[s].id \in MapOf(reqs[s].cat)
    /\ reqs[t].op = "create" /\ reqs[t].pc = "handler" /\ reqs[t].cat = reqs[s].cat
    /\ reqs[s].id \notin reqs[t].pre.keys
    /\ heap[reqs[s].id].filename = reqs[t].file.originalname

====
